---- MODULE Spec2Model ----
(***************************************************************************)
(* Room membership and permission engine of Django-Live-Chat.              *)
(*                                                                         *)
(* The store holds two tables, chat_rooms and chat_members.  Every action  *)
(* is one operation of the model layer (chat/models.py) or of a view that  *)
(* writes the store directly (chat/views.py), applied to a stored room.    *)
(***************************************************************************)
EXTENDS Integers, Sequences, FiniteSets, TLC

VARIABLES
    rooms,      \* table chat_rooms: sequence of rows, the index is the primary key
    members,    \* table chat_members: set of rows, each with its primary key
    clock,      \* the last value timezone.now() returned
    last,       \* the operation that ran last, its arguments and what it returned
    procs,      \* concurrent requests: position and local variables of each
    codec,      \* a capability set, its composite and one containment test
    chat,       \* table chat_messages, the presence sets and the room channels
    users       \* table of users: the usernames that have a row

vars == <<rooms, members, clock, last, procs, codec, chat, users>>

----------------------------------------------------------------------------
(* Bounds *)

MaxRooms == 1
MaxClock == 2
MaxCreated == 2
MaxConcRooms == 1
MaxConcOps == 4
MaxChatRooms == 2
MaxConns == 2
MaxMsgRooms == 1
MaxMessages == 2
MaxNow == 3

----------------------------------------------------------------------------
(* Users (users/models.py).  is_staff separates the support staff from the  *)
(* other users; the views pass staff only to tickets and other users only  *)
(* to groups and private chats.                                            *)

NonStaff == {"u1", "u2"}
Staff == {"s1", "s2"}
Users == NonStaff \cup Staff
NoUser == "-"

is_staff(u) == u \in Staff

----------------------------------------------------------------------------
(* Permission codec (chat/permissions.py) *)

Capabilities ==
    <<"remove_member", "update_group", "close_group", "lock_group",
      "add_member", "join_group", "send_message">>

CapabilitySet == {Capabilities[i] : i \in 1..Len(Capabilities)}

\* join_group given a coefficient that is not prime.
permission_coefficients_composite ==
    [remove_member |-> 31, update_group |-> 29, close_group |-> 23,
     lock_group |-> 19, add_member |-> 17, join_group |-> 6,
     send_message |-> 3]

permission_coefficients ==
    [remove_member |-> 31, update_group |-> 29, close_group |-> 23,
     lock_group |-> 19, add_member |-> 17, join_group |-> 5,
     send_message |-> 3]

no_permission == 2

RECURSIVE permission_loop(_, _, _)
permission_loop(args, i, result) ==
    IF i > Len(Capabilities) THEN result
    ELSE permission_loop(args, i + 1,
            IF Capabilities[i] \in args
            THEN result * permission_coefficients[Capabilities[i]]
            ELSE result)

permission(args) ==
    LET result == permission_loop(args, 1, 1)
    IN  IF result = 1 THEN no_permission ELSE result

member_permissions ==
    permission_coefficients["send_message"] * permission_coefficients["join_group"]

admin_permissions ==
    member_permissions * permission_coefficients["add_member"]

creator_permissions ==
    permission_loop(CapabilitySet, 1, 1)

has_action_permission(action_permission, action) ==
    IF action_permission = no_permission THEN FALSE
    ELSE action_permission % permission({action}) = 0

----------------------------------------------------------------------------
(* Tables (chat/models.py, core/base_model.py) *)

NULL == 0

TICKET == "USER_TICKET"
PUBLIC_GROUPE == "PUBLIC_GROUPE"
PRIVATE_GROUPE == "PRIVATE_GROUPE"
PRIVATE_CHAT == "PRIVATE_CHAT"

GroupTypes == {PUBLIC_GROUPE, PRIVATE_GROUPE}

\* A new chat_rooms row with the field defaults of ChatRoom.
ChatRoom(type, name) ==
    [type |-> type, name |-> name, closed |-> FALSE, closed_at |-> NULL,
     read_only |-> FALSE, is_deleted |-> FALSE]

\* The primary key of the next chat_members row of a room and user: rows are
\* numbered per room and user, so the key does not record the insertion order.
next_id(ms, r, u) ==
    <<r, u, Cardinality({m \in ms : m.chat_room = r /\ m.user = u}) + 1>>

\* A new chat_members row with the field defaults of ChatMember.
ChatMember(id, is_creator, chat_room, user, action_permission) ==
    [id |-> id, is_creator |-> is_creator, is_admin |-> FALSE,
     action_permission |-> action_permission, chat_room |-> chat_room,
     user |-> user, is_deleted |-> FALSE]

RoomIds == 1..Len(rooms)

is_ticket(room) == room.type = TICKET
is_group(room) == room.type \in {PUBLIC_GROUPE, PRIVATE_GROUPE}
is_public_group(room) == room.type = PUBLIC_GROUPE
is_private_chat(room) == room.type = PRIVATE_CHAT

\* The managers of ChatMember: objects hides soft-deleted rows, base_objects
\* hides nothing, non_removed_objects hides the rows without join_group.
objects(ms) == {m \in ms : ~m.is_deleted}

base_objects(ms) == ms

non_removed_objects(ms) ==
    {m \in ms : m.action_permission % permission({"join_group"}) = 0}

manager_rows(manager, ms) ==
    IF manager = "base_objects" THEN base_objects(ms)
    ELSE IF manager = "non_removed_objects" THEN non_removed_objects(ms)
    ELSE objects(ms)

\* room.chat_member: the reverse relation, through the default manager.
chat_member(ms, r) == {m \in objects(ms) : m.chat_room = r}

role(m) ==
    IF m.is_creator THEN "creator"
    ELSE IF m.is_admin THEN "admin"
    ELSE "member"

all_members(ms, r) == {m.user : m \in chat_member(ms, r)}

admins(ms, r) == {m.user : m \in {x \in chat_member(ms, r) : role(x) = "admin"}}

has_member(ms, r, u) == u \in all_members(ms, r)

has_admin(ms, r, u) == u \in admins(ms, r)

\* chat_members without the constraint unique_user_room.
unique_user_room_missing(ms, row) == TRUE

\* UniqueConstraint(fields=['chat_room', 'user']): may this row be inserted?
unique_user_room(ms, row) ==
    ~\E m \in ms : m.chat_room = row.chat_room /\ m.user = row.user

\* room.chat_member.filter(chat_room_id=r, user=u): the rows update() changes
filter_rows(ms, r, u) == {m \in chat_member(ms, r) : m.user = u}

\* room.chat_member(manager=...).update_or_create(chat_room_id=r, user=u,
\*     is_deleted=True, defaults={'is_deleted': False})
update_or_create(ms, manager, r, u) ==
    LET found == {m \in manager_rows(manager, ms) :
                    m.chat_room = r /\ m.user = u /\ m.is_deleted}
        row == ChatMember(next_id(ms, r, u), FALSE, r, u, member_permissions)
    IN  IF Cardinality(found) = 1
        THEN [members |-> (ms \ found) \cup
                          {[m EXCEPT !.is_deleted = FALSE] : m \in found},
              ret |-> "True"]
        ELSE IF Cardinality(found) > 1
        THEN [members |-> ms, ret |-> "MultipleObjectsReturned"]
        ELSE IF unique_user_room(ms, row)
        THEN [members |-> ms \cup {row}, ret |-> "True"]
        ELSE [members |-> ms, ret |-> "IntegrityError"]

\* ChatRoom.save: what is stored for the instance inst of the stored row.
save_stamps(inst) ==
    ~(inst.closed_at # NULL /\ (is_ticket(inst) \/ is_group(inst))) /\ inst.closed

\* save without the early return for a closed ticket or group.
save_unguarded(stored, inst, now) ==
    IF inst.closed
    THEN [inst EXCEPT !.closed_at = now]
    ELSE inst

save(stored, inst, now) ==
    IF inst.closed_at # NULL /\ (is_ticket(inst) \/ is_group(inst))
    THEN stored
    ELSE IF inst.closed
    THEN [inst EXCEPT !.closed_at = now]
    ELSE inst

Last(op, r, u, ret) == [op |-> op, room |-> r, user |-> u, ret |-> ret]

----------------------------------------------------------------------------
(* Room creation (ChatRoomManager) *)

\* Count("user_member"): the chat_members rows of a user, of every room.
user_member_count(ms, u) == Cardinality({m \in ms : m.user = u})

\* first() without the order_by("c"): any staff other than the creator.
any_other_staff(ms, creator) ==
    {u \in users : u # creator /\ is_staff(u)}

\* The staff that order_by("c").first() may return: a least-loaded one.
least_loaded_staff(ms, creator) ==
    LET candidates == {u \in users : u # creator /\ is_staff(u)}
    IN  {u \in candidates :
            \A v \in candidates : user_member_count(ms, u) <= user_member_count(ms, v)}

create_ticket(creator) ==
    LET ticket == Len(rooms) + 1
    IN  /\ rooms' = Append(rooms, ChatRoom(TICKET, <<>>))
        /\ IF least_loaded_staff(members, creator) = {}
           THEN \* user=None: the bulk insert fails, the room row stays
                /\ members' = members
                /\ last' = Last("create_ticket", ticket, creator, "IntegrityError")
           ELSE \E staff \in least_loaded_staff(members, creator) :
                /\ members' = members \cup
                     {ChatMember(next_id(members, ticket, creator), TRUE, ticket,
                                 creator, member_permissions),
                      ChatMember(next_id(members, ticket, staff), FALSE, ticket,
                                 staff, member_permissions)}
                /\ last' = Last("create_ticket", ticket, creator, "created")
        /\ UNCHANGED <<clock, procs, codec, chat, users>>

private_chat_name(creator, contact) == <<creator, contact>>

\* The rooms get_or_create(name=..., type="PRIVATE_CHAT") finds.
private_chat_found(creator, contact) ==
    {r \in RoomIds : /\ ~rooms[r].is_deleted
                     /\ rooms[r].name = private_chat_name(creator, contact)
                     /\ rooms[r].type = PRIVATE_CHAT}

create_private_chat(creator, contact) ==
    LET _name == private_chat_name(creator, contact)
        found == private_chat_found(creator, contact)
        private_chat == Len(rooms) + 1
    IN  /\ creator # contact
        /\ IF Cardinality(found) = 1
           THEN /\ UNCHANGED <<rooms, members>>
                /\ last' = Last("create_private_chat", CHOOSE r \in found : TRUE,
                                creator, "found")
           ELSE IF Cardinality(found) > 1
           THEN /\ UNCHANGED <<rooms, members>>
                /\ last' = Last("create_private_chat", 0, creator,
                                "MultipleObjectsReturned")
           ELSE /\ rooms' = Append(rooms, ChatRoom(PRIVATE_CHAT, _name))
                /\ members' = members \cup
                     {ChatMember(next_id(members, private_chat, creator), TRUE,
                                 private_chat, creator, member_permissions),
                      ChatMember(next_id(members, private_chat, contact), FALSE,
                                 private_chat, contact, member_permissions)}
                /\ last' = Last("create_private_chat", private_chat, creator, "created")
        /\ UNCHANGED <<clock, procs, codec, chat, users>>

\* create_group without the filter member.id != creator.id.
create_group_unfiltered(creator, requested, type) ==
    LET group == Len(rooms) + 1
    IN  /\ rooms' = Append(rooms, ChatRoom(type, <<>>))
        /\ members' = members
              \cup {ChatMember(next_id(members, group, creator), TRUE, group,
                               creator, creator_permissions)}
              \cup {ChatMember(next_id(members, group, u), FALSE, group, u,
                               member_permissions) : u \in requested}
        /\ last' = Last("create_group", group, creator, "created")
        /\ UNCHANGED <<clock, procs, codec, chat, users>>

create_group(creator, requested, type) ==
    LET group == Len(rooms) + 1
    IN  /\ rooms' = Append(rooms, ChatRoom(type, <<>>))
        /\ members' = members
              \cup {ChatMember(next_id(members, group, creator), TRUE, group,
                               creator, creator_permissions)}
              \cup {ChatMember(next_id(members, group, u), FALSE, group, u,
                               member_permissions) :
                        u \in {x \in requested : x # creator}}
        /\ last' = Last("create_group", group, creator, "created")
        /\ UNCHANGED <<clock, procs, codec, chat, users>>

----------------------------------------------------------------------------
(* Room state (ChatRoom.lock, close, close_lock, close_lock_delete, open) *)

\* Change fields of the loaded instance, then self.save().
save_room(op, r, inst) ==
    /\ save_stamps(inst) => clock < MaxClock
    /\ rooms' = [rooms EXCEPT ![r] = save(rooms[r], inst, clock + 1)]
    /\ clock' = IF save_stamps(inst) THEN clock + 1 ELSE clock
    /\ last' = Last(op, r, NoUser, "None")
    /\ UNCHANGED <<members, procs, codec, chat, users>>

\* lock that sets the flag instead of inverting it.
lock_sets(r) ==
    save_room("lock", r, [rooms[r] EXCEPT !.read_only = TRUE])

lock(r) ==
    save_room("lock", r, [rooms[r] EXCEPT !.read_only = ~rooms[r].read_only])

close(r) ==
    save_room("close", r, [rooms[r] EXCEPT !.closed = TRUE])

close_lock(r) ==
    save_room("close_lock", r,
              [rooms[r] EXCEPT !.closed = TRUE, !.read_only = TRUE])

close_lock_delete_inst(room) ==
    [room EXCEPT !.closed = TRUE, !.read_only = TRUE, !.is_deleted = TRUE]

close_lock_delete(r) ==
    save_room("close_lock_delete", r, close_lock_delete_inst(rooms[r]))

open(r) ==
    save_room("open", r,
              [rooms[r] EXCEPT !.closed = FALSE, !.read_only = FALSE,
                               !.closed_at = NULL])

\* GroupUpdateAPIView: the serializer assigns the writable fields (closed,
\* read_only and type are writable), then instance.save().
update_group(r, closed, read_only, type) ==
    /\ is_group(rooms[r])
    /\ ~rooms[r].is_deleted
    /\ save_room("update_group", r,
                 [rooms[r] EXCEPT !.closed = closed, !.read_only = read_only,
                                  !.type = type])

\* ChatRoomManager.update(closed=...): every row the manager shows.
manager_update(closed) ==
    /\ closed => clock < MaxClock
    /\ rooms' = [r \in RoomIds |->
                    IF rooms[r].is_deleted THEN rooms[r]
                    ELSE IF closed
                    THEN [rooms[r] EXCEPT !.closed = TRUE, !.closed_at = clock + 1]
                    ELSE [rooms[r] EXCEPT !.closed = FALSE]]
    /\ clock' = IF closed THEN clock + 1 ELSE clock
    /\ last' = Last("manager_update", 0, NoUser, "None")
    /\ UNCHANGED <<members, procs, codec, chat, users>>

----------------------------------------------------------------------------
(* Membership (ChatRoom.join_public_group ... demote_admin, ChatMember.delete) *)

\* What join_public_group does to the table and what it returns.
join_public_group_result(ms, room, r, user) ==
    IF is_public_group(room) /\ ~has_member(ms, r, user)
    THEN update_or_create(ms, "non_removed_objects", r, user)
    ELSE [members |-> ms, ret |-> "False"]

join_public_group(r, user) ==
    LET res == join_public_group_result(members, rooms[r], r, user)
    IN  /\ members' = res.members
        /\ last' = Last("join_public_group", r, user, res.ret)
        /\ UNCHANGED <<rooms, clock, procs, codec, chat, users>>

\* What add_new_member does to the table and what it returns.
add_new_member_result(ms, room, r, user) ==
    IF ~has_member(ms, r, user)
    THEN IF is_ticket(room) THEN update_or_create(ms, "base_objects", r, user)
         ELSE IF is_group(room)
         THEN update_or_create(ms, "non_removed_objects", r, user)
         ELSE [members |-> ms, ret |-> "UnboundLocalError"]
    ELSE [members |-> ms, ret |-> "False"]

add_new_member(r, user) ==
    LET res == add_new_member_result(members, rooms[r], r, user)
    IN  /\ is_staff(user) <=> is_ticket(rooms[r])
        /\ members' = res.members
        /\ last' = Last("add_new_member", r, user, res.ret)
        /\ UNCHANGED <<rooms, clock, procs, codec, chat, users>>

\* remove_member that only soft-deletes.
removed_keeps_permission(m) ==
    [m EXCEPT !.is_deleted = TRUE]

removed(m) ==
    [m EXCEPT !.is_deleted = TRUE, !.action_permission = no_permission]

remove_member(r, member) ==
    /\ IF has_member(members, r, member)
       THEN /\ members' = (members \ filter_rows(members, r, member))
                    \cup {removed(m) : m \in filter_rows(members, r, member)}
            /\ last' = Last("remove_member", r, member, "True")
       ELSE /\ members' = members
            /\ last' = Last("remove_member", r, member, "False")
    /\ UNCHANGED <<rooms, clock, procs, codec, chat, users>>

\* promote_member that only sets is_admin.
promoted_keeps_permission(m) ==
    [m EXCEPT !.is_admin = TRUE]

promoted(m) ==
    [m EXCEPT !.is_admin = TRUE, !.action_permission = admin_permissions]

promote_member(r, member) ==
    /\ IF has_member(members, r, member)
       THEN /\ members' = (members \ filter_rows(members, r, member))
                    \cup {promoted(m) : m \in filter_rows(members, r, member)}
            /\ last' = Last("promote_member", r, member, "True")
       ELSE /\ members' = members
            /\ last' = Last("promote_member", r, member, "False")
    /\ UNCHANGED <<rooms, clock, procs, codec, chat, users>>

demoted(m) ==
    [m EXCEPT !.is_admin = FALSE, !.action_permission = member_permissions]

demote_admin(r, admin) ==
    /\ IF has_admin(members, r, admin)
       THEN /\ members' = (members \ filter_rows(members, r, admin))
                    \cup {demoted(m) : m \in filter_rows(members, r, admin)}
            /\ last' = Last("demote_admin", r, admin, "True")
       ELSE /\ members' = members
            /\ last' = Last("demote_admin", r, admin, "False")
    /\ UNCHANGED <<rooms, clock, procs, codec, chat, users>>

\* MemberActionPermissionAPIView.update: the creator sets a member's
\* capabilities; below the admin level the member also stops being admin.
PermissionChoices ==
    {{"send_message"}, {"join_group", "send_message", "remove_member"}}

set_action_permission(r, user, chosen) ==
    LET _action_permission == permission(chosen)
        below(m) == [m EXCEPT !.action_permission = _action_permission,
                              !.is_admin = FALSE]
        above(m) == [m EXCEPT !.action_permission = _action_permission]
    IN  /\ is_group(rooms[r])
        /\ ~rooms[r].is_deleted
        /\ has_member(members, r, user)
        /\ members' = (members \ filter_rows(members, r, user)) \cup
                      (IF _action_permission < permission({"add_member"})
                       THEN {below(m) : m \in filter_rows(members, r, user)}
                       ELSE {above(m) : m \in filter_rows(members, r, user)})
        /\ last' = Last("set_action_permission", r, user, "Done")
        /\ UNCHANGED <<rooms, clock, procs, codec, chat, users>>

\* LeaveGroupAPIView -> ChatMember.delete on the user's active row.
leave(r, user) ==
    \E m \in chat_member(members, r) :
        /\ m.user = user
        /\ LET inst == close_lock_delete_inst(rooms[r])
           IN  IF m.is_creator
               THEN /\ save_stamps(inst) => clock < MaxClock
                    /\ rooms' = [rooms EXCEPT ![r] = save(rooms[r], inst, clock + 1)]
                    /\ clock' = IF save_stamps(inst) THEN clock + 1 ELSE clock
               ELSE UNCHANGED <<rooms, clock>>
        /\ members' = (members \ {m}) \cup {[m EXCEPT !.is_deleted = TRUE]}
        /\ last' = Last("leave", r, user, "Done")
        /\ UNCHANGED <<procs, codec, chat, users>>

----------------------------------------------------------------------------
(* The store, one operation at a time *)

NoCodec == [S |-> {}, pc |-> "off", composite |-> 0, cap |-> "", has |-> FALSE]

\* No message stored, nobody present, no connection in a room channel.
\* token = None, the module-level variable of core/permissions.py
NoToken == "None"

NoChat ==
    [messages |-> <<>>, presence |-> {}, channel |-> {}, now |-> 0, sse |-> {},
     user_online |-> {}, token |-> NoToken]

Init ==
    /\ rooms = <<>>
    /\ members = {}
    /\ clock = 0
    /\ last = Last("init", 0, NoUser, "None")
    /\ procs = <<>>
    /\ codec = NoCodec
    /\ chat = NoChat
    /\ users = Users

Next ==
    \/ \E creator \in Users :
          Len(rooms) < MaxRooms /\ create_ticket(creator)
    \/ \E creator \in NonStaff, contact \in NonStaff :
          /\ Len(rooms) < MaxRooms \/ private_chat_found(creator, contact) # {}
          /\ create_private_chat(creator, contact)
    \/ \E creator \in NonStaff, requested \in SUBSET NonStaff, type \in GroupTypes :
          Len(rooms) < MaxRooms /\ create_group(creator, requested, type)
    \/ \E r \in RoomIds : lock(r)
    \/ \E r \in RoomIds : close(r)
    \/ \E r \in RoomIds : close_lock(r)
    \/ \E r \in RoomIds : close_lock_delete(r)
    \/ \E r \in RoomIds : open(r)
    \/ \E r \in RoomIds, closed \in BOOLEAN, read_only \in BOOLEAN,
          type \in GroupTypes : update_group(r, closed, read_only, type)
    \/ \E closed \in BOOLEAN : manager_update(closed)
    \/ \E r \in RoomIds, user \in NonStaff : join_public_group(r, user)
    \/ \E r \in RoomIds, user \in Users : add_new_member(r, user)
    \/ \E r \in RoomIds, user \in NonStaff :
          is_group(rooms[r]) /\ remove_member(r, user)
    \/ \E r \in RoomIds, user \in NonStaff :
          is_group(rooms[r]) /\ promote_member(r, user)
    \/ \E r \in RoomIds, user \in NonStaff :
          is_group(rooms[r]) /\ demote_admin(r, user)
    \/ \E r \in RoomIds, user \in NonStaff, chosen \in PermissionChoices :
          set_action_permission(r, user, chosen)
    \/ \E r \in RoomIds, user \in Users : leave(r, user)

Spec == Init /\ [][Next]_vars

----------------------------------------------------------------------------
(* Room creation on its own: tickets, private chats and groups, up to      *)
(* MaxCreated rooms                                                        *)

NextCreate ==
    \/ \E creator \in Users :
          Len(rooms) < MaxCreated /\ create_ticket(creator)
    \/ \E creator \in NonStaff, contact \in NonStaff :
          /\ Len(rooms) < MaxCreated \/ private_chat_found(creator, contact) # {}
          /\ create_private_chat(creator, contact)
    \/ \E creator \in NonStaff, requested \in SUBSET NonStaff, type \in GroupTypes :
          Len(rooms) < MaxCreated /\ create_group(creator, requested, type)
    \/ \E r \in RoomIds, user \in Staff : add_new_member(r, user)
    \/ \E r \in RoomIds, user \in Users : leave(r, user)

SpecCreate == Init /\ [][NextCreate]_vars

----------------------------------------------------------------------------
(* Room creation over every table of users: any subset of the usernames    *)
(* may have a row, so a creator may find no other staff user               *)

InitUsers ==
    /\ rooms = <<>>
    /\ members = {}
    /\ clock = 0
    /\ last = Last("init", 0, NoUser, "None")
    /\ procs = <<>>
    /\ codec = NoCodec
    /\ chat = NoChat
    /\ users \in SUBSET Users

NextUsers ==
    \/ \E creator \in users :
          Len(rooms) < MaxCreated /\ create_ticket(creator)
    \/ \E creator \in users \cap NonStaff, contact \in users \cap NonStaff :
          /\ Len(rooms) < MaxCreated \/ private_chat_found(creator, contact) # {}
          /\ create_private_chat(creator, contact)
    \/ \E creator \in users \cap NonStaff, requested \in SUBSET (users \cap NonStaff),
          type \in GroupTypes :
          Len(rooms) < MaxCreated /\ create_group(creator, requested, type)
    \/ \E r \in RoomIds, user \in users : leave(r, user)

SpecUsers == InitUsers /\ [][NextUsers]_vars

----------------------------------------------------------------------------
(* The permission codec on its own: encode a capability set, then test it *)

InitCodec ==
    /\ rooms = <<>>
    /\ members = {}
    /\ clock = 0
    /\ last = Last("init", 0, NoUser, "None")
    /\ procs = <<>>
    /\ codec \in {[S |-> S, pc |-> "start", composite |-> 0, cap |-> "",
                   has |-> FALSE] : S \in SUBSET CapabilitySet}
    /\ chat = NoChat
    /\ users = Users

encode ==
    /\ codec.pc = "start"
    /\ codec' = [codec EXCEPT !.pc = "encoded",
                              !.composite = permission(codec.S)]
    /\ UNCHANGED <<rooms, members, clock, last, procs, chat, users>>

has(c) ==
    /\ codec.pc \in {"encoded", "checked"}
    /\ codec' = [codec EXCEPT !.pc = "checked", !.cap = c,
                              !.has = has_action_permission(codec.composite, c)]
    /\ UNCHANGED <<rooms, members, clock, last, procs, chat, users>>

NextCodec ==
    \/ encode
    \/ \E c \in CapabilitySet : has(c)

SpecCodec == InitCodec /\ [][NextCodec]_vars

----------------------------------------------------------------------------
(* Concurrent requests.  Two requests run at once; each step of a request  *)
(* is one statement against the store, and the steps of the two requests   *)
(* interleave freely.  A request keeps what it has read in local variables *)
(* (obj: chat_members rows, inst: chat_rooms rows).  Requests are numbered *)
(* in the order they arrive (n); rival is the number of the request that   *)
(* was under way when this one arrived, 0 if none was.                     *)

Procs == {"p", "q"}

Idle ==
    [pc |-> "idle", op |-> "-", room |-> 0, user |-> NoUser, requested |-> {},
     obj |-> {}, inst |-> {}, ret |-> "None", n |-> 0, rival |-> 0]

Request(op, r, u, pc) == [Idle EXCEPT !.pc = pc, !.op = op, !.room = r, !.user = u]

Done(req, ret) == [req EXCEPT !.pc = "done", !.ret = ret]

\* Model.save() of a loaded chat_members row: UPDATE ... WHERE id = row.id
write_row(ms, row) == {m \in ms : m.id # row.id} \cup {row}

\* The manager add_new_member and join_public_group pass to chat_member.
manager_of(req) ==
    IF req.op = "add_new_member" /\ is_ticket(rooms[req.room])
    THEN "base_objects"
    ELSE "non_removed_objects"

\* get(chat_room_id=r, user=u, is_deleted=True) through the manager
lookup(req) ==
    {m \in manager_rows(manager_of(req), members) :
        m.chat_room = req.room /\ m.user = req.user /\ m.is_deleted}

set_proc(p, req) == procs' = [procs EXCEPT !.req[p] = req]

under_way(req) == req.pc \notin {"idle", "done"}

start_proc(p, req) ==
    /\ procs.req[p].pc = "idle"
    /\ procs.started < MaxConcOps
    /\ LET others == {o \in Procs \ {p} : under_way(procs.req[o])}
           rival == IF others = {} THEN 0
                    ELSE procs.req[CHOOSE o \in others : TRUE].n
       IN  procs' = [req |-> [procs.req EXCEPT ![p] =
                                 [req EXCEPT !.n = procs.started + 1,
                                             !.rival = rival]],
                     started |-> procs.started + 1]

\* create_group, first statement: super().create(name=name, type=type)
conc_create_group(p, creator, requested, type) ==
    /\ Len(rooms) < MaxConcRooms
    /\ rooms' = Append(rooms, ChatRoom(type, <<>>))
    /\ start_proc(p, [Request("create_group", Len(rooms) + 1, creator,
                              "bulk_create") EXCEPT !.requested = requested])
    /\ UNCHANGED <<members, clock, last, codec, chat, users>>

\* create_group, second statement: ChatMember.objects.bulk_create(all_members)
conc_bulk_create(p) ==
    LET req == procs.req[p]
        all_rows ==
            {ChatMember(next_id(members, req.room, req.user), TRUE, req.room,
                        req.user, creator_permissions)}
            \cup {ChatMember(next_id(members, req.room, u), FALSE, req.room, u,
                             member_permissions) :
                      u \in {x \in req.requested : x # req.user}}
    IN  /\ req.pc = "bulk_create"
        /\ IF \A row \in all_rows : unique_user_room(members, row)
           THEN /\ members' = members \cup all_rows
                /\ set_proc(p, Done(req, "created"))
           ELSE /\ members' = members
                /\ set_proc(p, Done(req, "IntegrityError"))
        /\ UNCHANGED <<rooms, clock, last, codec, chat, users>>

\* join_public_group up to its read of all_members
conc_join_public_group(p, r, user) ==
    /\ start_proc(p, IF is_public_group(rooms[r]) /\ ~has_member(members, r, user)
                     THEN Request("join_public_group", r, user, "get")
                     ELSE Done(Request("join_public_group", r, user, "done"),
                               "False"))
    /\ UNCHANGED <<rooms, members, clock, last, codec, chat, users>>

\* add_new_member up to its read of all_members
conc_add_new_member(p, r, user) ==
    /\ is_group(rooms[r])
    /\ start_proc(p, IF ~has_member(members, r, user)
                     THEN Request("add_new_member", r, user, "get")
                     ELSE Done(Request("add_new_member", r, user, "done"),
                               "False"))
    /\ UNCHANGED <<rooms, members, clock, last, codec, chat, users>>

\* update_or_create: self.get(**kwargs)
conc_get(p) ==
    LET req == procs.req[p]
        found == lookup(req)
    IN  /\ req.pc = "get"
        /\ set_proc(p, IF Cardinality(found) = 1
                       THEN [req EXCEPT !.pc = "save", !.obj = found]
                       ELSE IF Cardinality(found) > 1
                       THEN Done(req, "MultipleObjectsReturned")
                       ELSE [req EXCEPT !.pc = "create"])
        /\ UNCHANGED <<rooms, members, clock, last, codec, chat, users>>

\* update_or_create: self.create(**params)
conc_create(p) ==
    LET req == procs.req[p]
        row == ChatMember(next_id(members, req.room, req.user), FALSE, req.room,
                          req.user, member_permissions)
    IN  /\ req.pc = "create"
        /\ IF unique_user_room(members, row)
           THEN /\ members' = members \cup {row}
                /\ set_proc(p, Done(req, "True"))
           ELSE /\ members' = members
                /\ set_proc(p, [req EXCEPT !.pc = "reget"])
        /\ UNCHANGED <<rooms, clock, last, codec, chat, users>>

\* update_or_create: after IntegrityError, self.get(**lookup) once more
conc_reget(p) ==
    LET req == procs.req[p]
        found == lookup(req)
    IN  /\ req.pc = "reget"
        /\ set_proc(p, IF Cardinality(found) = 1
                       THEN [req EXCEPT !.pc = "save", !.obj = found]
                       ELSE IF Cardinality(found) > 1
                       THEN Done(req, "MultipleObjectsReturned")
                       ELSE Done(req, "IntegrityError"))
        /\ UNCHANGED <<rooms, members, clock, last, codec, chat, users>>

\* update_or_create: setattr(obj, 'is_deleted', False); obj.save()
conc_save(p) ==
    LET req == procs.req[p]
    IN  /\ req.pc = "save"
        /\ members' = write_row(members,
                                [(CHOOSE m \in req.obj : TRUE) EXCEPT
                                     !.is_deleted = FALSE])
        /\ set_proc(p, Done(req, "True"))
        /\ UNCHANGED <<rooms, clock, last, codec, chat, users>>

\* remove_member up to its read of all_members
conc_remove_member(p, r, member) ==
    /\ is_group(rooms[r])
    /\ start_proc(p, IF has_member(members, r, member)
                     THEN Request("remove_member", r, member, "update")
                     ELSE Done(Request("remove_member", r, member, "done"),
                               "False"))
    /\ UNCHANGED <<rooms, members, clock, last, codec, chat, users>>

\* remove_member: the UPDATE of the filtered rows
conc_update(p) ==
    LET req == procs.req[p]
    IN  /\ req.pc = "update"
        /\ members' = (members \ filter_rows(members, req.room, req.user))
                \cup {removed(m) : m \in filter_rows(members, req.room, req.user)}
        /\ set_proc(p, Done(req, "True"))
        /\ UNCHANGED <<rooms, clock, last, codec, chat, users>>

\* LeaveGroupAPIView: get_object() loads the user's active row, then delete()
conc_leave(p, r, user) ==
    /\ \E m \in chat_member(members, r) :
          /\ m.user = user
          /\ start_proc(p, [Request("leave", r, user,
                                    IF m.is_creator THEN "load_room"
                                    ELSE "delete_save") EXCEPT !.obj = {m}])
    /\ UNCHANGED <<rooms, members, clock, last, codec, chat, users>>

\* ChatMember.delete of the creator: self.chat_room loads the room
conc_load_room(p) ==
    LET req == procs.req[p]
    IN  /\ req.pc = "load_room"
        /\ set_proc(p, [req EXCEPT !.pc = "save_room",
                                   !.inst = {rooms[req.room]}])
        /\ UNCHANGED <<rooms, members, clock, last, codec, chat, users>>

\* ChatMember.delete of the creator: close_lock_delete() on the loaded room
conc_save_room(p) ==
    LET req == procs.req[p]
        inst == close_lock_delete_inst(CHOOSE x \in req.inst : TRUE)
    IN  /\ req.pc = "save_room"
        /\ save_stamps(inst) => clock < MaxClock
        /\ rooms' = [rooms EXCEPT ![req.room] = save(rooms[req.room], inst, clock + 1)]
        /\ clock' = IF save_stamps(inst) THEN clock + 1 ELSE clock
        /\ set_proc(p, [req EXCEPT !.pc = "delete_save"])
        /\ UNCHANGED <<members, last, codec, chat, users>>

\* ChatMember.delete: self.is_deleted = True; self.save()
conc_delete_save(p) ==
    LET req == procs.req[p]
    IN  /\ req.pc = "delete_save"
        /\ members' = write_row(members,
                                [(CHOOSE m \in req.obj : TRUE) EXCEPT
                                     !.is_deleted = TRUE])
        /\ set_proc(p, Done(req, "Done"))
        /\ UNCHANGED <<rooms, clock, last, codec, chat, users>>

\* The response is sent; the worker takes the next request.
conc_respond(p) ==
    /\ procs.req[p].pc = "done"
    /\ set_proc(p, Idle)
    /\ UNCHANGED <<rooms, members, clock, last, codec, chat, users>>

\* create_private_chat, get_or_create: self.get(name=..., type="PRIVATE_CHAT")
conc_create_private_chat(p, creator, contact) ==
    LET found == private_chat_found(creator, contact)
    IN  /\ creator # contact
        /\ start_proc(p, IF Cardinality(found) = 1
                         THEN Done(Request("create_private_chat",
                                           CHOOSE r \in found : TRUE, creator,
                                           "done"), "found")
                         ELSE IF Cardinality(found) > 1
                         THEN Done(Request("create_private_chat", 0, creator,
                                           "done"), "MultipleObjectsReturned")
                         ELSE [Request("create_private_chat", 0, creator,
                                       "create_room") EXCEPT
                                  !.requested = {contact}])
        /\ UNCHANGED <<rooms, members, clock, last, codec, chat, users>>

\* create_private_chat, get_or_create: self.create(name=..., type=...); the
\* name column carries no unique constraint, so the insert succeeds.
conc_create_room(p) ==
    LET req == procs.req[p]
        contact == CHOOSE u \in req.requested : TRUE
    IN  /\ req.pc = "create_room"
        /\ Len(rooms) < MaxChatRooms
        /\ rooms' = Append(rooms, ChatRoom(PRIVATE_CHAT,
                                           private_chat_name(req.user, contact)))
        /\ set_proc(p, [req EXCEPT !.pc = "bulk_create_chat",
                                   !.room = Len(rooms) + 1])
        /\ UNCHANGED <<members, clock, last, codec, chat, users>>

\* create_private_chat: if is_create, bulk_create of the two memberships
conc_bulk_create_chat(p) ==
    LET req == procs.req[p]
        contact == CHOOSE u \in req.requested : TRUE
    IN  /\ req.pc = "bulk_create_chat"
        /\ members' = members \cup
              {ChatMember(next_id(members, req.room, req.user), TRUE, req.room,
                          req.user, member_permissions),
               ChatMember(next_id(members, req.room, contact), FALSE, req.room,
                          contact, member_permissions)}
        /\ set_proc(p, Done(req, "created"))
        /\ UNCHANGED <<rooms, clock, last, codec, chat, users>>

InitConc ==
    /\ rooms = <<>>
    /\ members = {}
    /\ clock = 0
    /\ last = Last("init", 0, NoUser, "None")
    /\ procs = [req |-> [p \in Procs |-> Idle], started |-> 0]
    /\ codec = NoCodec
    /\ chat = NoChat
    /\ users = Users

NextConc ==
    \/ \E p \in Procs, creator \in NonStaff, requested \in SUBSET NonStaff,
          type \in GroupTypes : conc_create_group(p, creator, requested, type)
    \/ \E p \in Procs : conc_bulk_create(p)
    \/ \E p \in Procs, r \in RoomIds, user \in NonStaff :
          conc_join_public_group(p, r, user)
    \/ \E p \in Procs, r \in RoomIds, user \in NonStaff :
          conc_add_new_member(p, r, user)
    \/ \E p \in Procs : conc_get(p)
    \/ \E p \in Procs : conc_create(p)
    \/ \E p \in Procs : conc_reget(p)
    \/ \E p \in Procs : conc_save(p)
    \/ \E p \in Procs, r \in RoomIds, user \in NonStaff :
          conc_remove_member(p, r, user)
    \/ \E p \in Procs : conc_update(p)
    \/ \E p \in Procs, r \in RoomIds, user \in NonStaff : conc_leave(p, r, user)
    \/ \E p \in Procs : conc_load_room(p)
    \/ \E p \in Procs : conc_save_room(p)
    \/ \E p \in Procs : conc_delete_save(p)
    \/ \E p \in Procs : conc_respond(p)

SpecConc == InitConc /\ [][NextConc]_vars

\* Two requests at a time that open private chats, up to MaxChatRooms rooms.
NextConcChat ==
    \/ \E p \in Procs, creator \in NonStaff, contact \in NonStaff :
          conc_create_private_chat(p, creator, contact)
    \/ \E p \in Procs : conc_create_room(p)
    \/ \E p \in Procs : conc_bulk_create_chat(p)
    \/ \E p \in Procs : conc_respond(p)

SpecConcChat == InitConc /\ [][NextConcChat]_vars

----------------------------------------------------------------------------
(* Messages, seen marks, offsets, unread summaries and the socket consumer *)
(* (chat/models.py, chat/views.py, chat/consumers.py).                     *)
(*                                                                         *)
(* A chat_messages row carries the fields class Message declares that the  *)
(* operations below use (id, type, seen, member, created_at) and seen_at,  *)
(* which MessageQuerySet.seen filters and stamps.  The queries name the    *)
(* sender and the chat room of a message; they are the user and the room   *)
(* of the membership that owns it.                                         *)

MESSAGE_TYPE == {"TEXT", "FILE", "ONLINE", "NOTICE", "TYPING", "SENDING"}

\* CharField without a default: the type of a Message built without one.
NoType == ""

AnonymousUser == "anonymous"

\* The connections (channel names) one user may hold to one room.
Conns == 1..MaxConns

Message(id, type, seen, member, created_at) ==
    [id |-> id, type |-> type, seen |-> seen, seen_at |-> NULL,
     member |-> member, created_at |-> created_at]

sender(msg) == msg.member[2]

chat_room(msg) == msg.member[1]

MessageIds == 1..Len(chat.messages)

\* Message.objects: every stored row (no operation soft-deletes a message).
chat_messages == {chat.messages[i] : i \in MessageIds}

\* Message.save without the test of the type.
message_saved_any_type(msgs, type, seen, member, now) ==
    Append(msgs, Message(Len(msgs) + 1, type, seen, member, now))

\* Message.save: the table after saving a new instance.
message_saved(msgs, type, seen, member, now) ==
    IF type \notin {"TEXT", "FILE"}
    THEN msgs
    ELSE Append(msgs, Message(Len(msgs) + 1, type, seen, member, now))

\* sse_signal (post_save of Message): the users whose unread channel is sent
\* user_unread_messages(user).
sse_signal(ms, r, seen) ==
    IF ~seen THEN all_members(ms, r) ELSE {}

\* Message(type=..., member=..., seen=...).save(); post_save runs only when
\* the row was written.
save_message(member, type, seen) ==
    /\ Len(chat.messages) < MaxMessages
    /\ chat.now < MaxNow
    /\ LET stored == message_saved(chat.messages, type, seen, member.id,
                                   chat.now + 1)
       IN  /\ chat' = [chat EXCEPT !.messages = stored,
                                   !.now = IF stored = chat.messages THEN @
                                           ELSE @ + 1,
                                   !.sse = IF stored = chat.messages THEN {}
                                           ELSE sse_signal(members,
                                                           member.chat_room, seen)]
           /\ last' = Last("save_message", member.chat_room, member.user,
                           IF stored = chat.messages THEN "None" ELSE "saved")
    /\ UNCHANGED <<rooms, members, clock, procs, codec, users>>

\* r.smembers(chat_room_id)
smembers(r) == {pu[2] : pu \in {x \in chat.presence : x[1] = r}}

\* Consumer.connect.  "self.user in chat_room.get().members" applies "in" to
\* the many-to-many manager, which is not iterable: the test raises
\* TypeError, and the statements after it (group_add, sadd, accept) never run.
connect(user, r) ==
    /\ last' = Last("connect", r, user,
                    IF user = AnonymousUser THEN "4004"
                    ELSE IF r \notin RoomIds THEN "4004"
                    ELSE IF rooms[r].is_deleted THEN "4004"
                    ELSE "TypeError")
    /\ UNCHANGED <<rooms, members, clock, procs, codec, chat, users>>

\* Consumer.connect from group_add to the user_online broadcast, for a
\* connection c that reached these statements: the connection joins the room
\* channel, the user id is added to the presence set, the connection is
\* accepted and the ids then present are broadcast.
connect_accept(user, r, c) ==
    /\ <<r, user, c>> \notin chat.channel
    /\ \E m \in members : m.chat_room = r /\ m.user = user
    /\ chat' = [chat EXCEPT !.channel = @ \cup {<<r, user, c>>},
                            !.presence = @ \cup {<<r, user>>},
                            !.user_online = smembers(r) \cup {user}]
    /\ last' = Last("connect_accept", r, user, "accepted")
    /\ UNCHANGED <<rooms, members, clock, procs, codec, users>>

\* Consumer.disconnect of connection c: broadcast of the ids present without
\* the user's, group_discard, srem.  int(self.user.id) fails for an anonymous
\* user as soon as the presence set has an element.
disconnect(user, r, c) ==
    /\ IF user = AnonymousUser /\ smembers(r) # {}
       THEN /\ chat' = chat
            /\ last' = Last("disconnect", r, user, "TypeError")
       ELSE /\ chat' = [chat EXCEPT !.channel = @ \ {<<r, user, c>>},
                                    !.presence = IF user = AnonymousUser THEN @
                                                 ELSE @ \ {<<r, user>>},
                                    !.user_online = smembers(r) \ {user}]
            /\ last' = Last("disconnect", r, user, "None")
    /\ UNCHANGED <<rooms, members, clock, procs, codec, users>>

\* Consumer.disconnect cut short after group_discard (the worker dies before
\* r.srem runs).
disconnect_crash(user, r, c) ==
    /\ <<r, user, c>> \in chat.channel
    /\ chat' = [chat EXCEPT !.channel = @ \ {<<r, user, c>>},
                            !.user_online = smembers(r) \ {user}]
    /\ last' = Last("disconnect_crash", r, user, "killed")
    /\ UNCHANGED <<rooms, members, clock, procs, codec, users>>

\* The text frames a client may send: the three kinds MessageContentSerializer
\* tells apart, and text that is not JSON.
Frames == {"chat_message", "user_typing", "invalid", "not_json"}

\* What receive would hand out if the unsaved Message could be serialized.
receive_sends_serialized(frame) ==
    CASE frame = "not_json" -> "JSONDecodeError"
      [] frame = "invalid" -> "user_notice"
      [] frame = "user_typing" -> "user_typing"
      [] frame = "chat_message" -> "chat_message"

\* What Consumer.receive hands out for a frame: "user_typing" is sent to the
\* room channel (group_send), "user_notice" to the own connection (self.send);
\* the other two are exceptions that end the handler before anything is sent.
\* json.loads raises on text that is not JSON.  For a chat_message the Message
\* that create() returns was not written (no type), and serializing an
\* instance without primary key fails on its many-to-many field mentions.
receive_sends(frame) ==
    CASE frame = "not_json" -> "JSONDecodeError"
      [] frame = "invalid" -> "user_notice"
      [] frame = "user_typing" -> "user_typing"
      [] frame = "chat_message" -> "ValueError"

\* Consumer.receive.  Message.objects.create is called without a type.
receive(user, r, frame) ==
    LET _seen == Cardinality(smembers(r)) > 1
        owner == {m \in objects(members) : m.chat_room = r /\ m.user = user}
    IN  /\ owner # {}
        /\ chat' = [chat EXCEPT !.messages =
                      IF frame = "chat_message"
                      THEN message_saved(@, NoType, _seen,
                                         (CHOOSE m \in owner : TRUE).id,
                                         chat.now + 1)
                      ELSE @]
        /\ last' = Last("receive", r, user, receive_sends(frame))
        /\ UNCHANGED <<rooms, members, clock, procs, codec, users>>

\* The rows of a seen() that does not exclude the reader's own messages.
seen_rows_own_included(msgs, r, user) ==
    {i \in 1..Len(msgs) :
        /\ msgs[i].member[1] = r
        /\ msgs[i].seen_at = NULL
        /\ is_staff(user) => ~is_staff(msgs[i].member[2])}

\* The rows a seen() call of this reader updates in the messages of a room,
\* without the test that seen_at is still empty.
seen_rows_restamped(msgs, r, user) ==
    {i \in 1..Len(msgs) :
        /\ msgs[i].member[1] = r
        /\ IF is_staff(user) THEN ~is_staff(msgs[i].member[2])
                             ELSE msgs[i].member[2] # user}

\* MessageQuerySet.seen: the rows the update touches, for the queryset of the
\* messages of room r.
seen_rows(msgs, r, user) ==
    {i \in 1..Len(msgs) :
        /\ msgs[i].member[1] = r
        /\ msgs[i].seen_at = NULL
        /\ IF is_staff(user) THEN ~is_staff(msgs[i].member[2])
                             ELSE msgs[i].member[2] # user}

\* MessageQuerySet.seen(user) on the messages of room r; returns the number
\* of rows updated.
seen(r, user) ==
    LET rows == seen_rows(chat.messages, r, user)
    IN  /\ rows # {} => chat.now < MaxNow
        /\ chat' = [chat EXCEPT
                      !.messages = [i \in MessageIds |->
                                      IF i \in rows
                                      THEN [chat.messages[i] EXCEPT
                                              !.seen = TRUE,
                                              !.seen_at = chat.now + 1]
                                      ELSE chat.messages[i]],
                      !.now = IF rows = {} THEN @ ELSE @ + 1]
        /\ last' = Last("seen", r, user, Cardinality(rows))
        /\ UNCHANGED <<rooms, members, clock, procs, codec, users>>

\* The page sizes a client asks for (limit).
PageSizes == {1, 2}

\* Message.objects.filter(member__chat_room=chat_room)
room_messages(r) == {msg \in chat_messages : msg.member[1] = r}

\* filter(Q(seen=False) & ~Q(member__user=request.user))
not_seen_by_others(r, user) ==
    {msg \in room_messages(r) : ~msg.seen /\ msg.member[2] # user}

\* The offset with a fallback count of all messages of the room.
offset_from_count_all(r, first_not_seen, limit) ==
    LET before == {msg \in room_messages(r) :
                     first_not_seen # NULL /\ msg.created_at < first_not_seen}
        count == IF Cardinality(before) = 0
                 THEN Cardinality(room_messages(r))
                 ELSE Cardinality(before)
    IN  (count \div limit) * limit

\* The offset computed from the created_at the subquery on the slice [:1]
\* yields (NULL when the slice is empty: no message is created before NULL).
offset_from(r, first_not_seen, limit) ==
    LET before == {msg \in room_messages(r) :
                     first_not_seen # NULL /\ msg.created_at < first_not_seen}
        count == IF Cardinality(before) = 0
                 THEN Cardinality(room_messages(r)) - 1
                 ELSE Cardinality(before)
    IN  (count \div limit) * limit

\* LastSeenOffsetAPIView.retrieve.  The queryset sliced with [:1] has no
\* order_by and Message has no Meta.ordering: the database may return any of
\* the rows that match.
offset(r, user, limit) ==
    /\ has_member(members, r, user)
    /\ ~rooms[r].is_deleted
    /\ \E first_not_seen \in IF not_seen_by_others(r, user) = {}
                             THEN {NULL}
                             ELSE {msg.created_at : msg \in not_seen_by_others(r, user)} :
          last' = Last("offset", r, user, offset_from(r, first_not_seen, limit))
    /\ UNCHANGED <<rooms, members, clock, procs, codec, chat, users>>

\* user_unread_messages: one row per room that has a message and a
\* chat_members row of the user, with the latest message of the room and the
\* number of unseen messages of other senders.
unread_rows(user) ==
    LET joined == {msg.member[1] : msg \in
                     {x \in chat_messages :
                        \E m \in members : m.chat_room = x.member[1] /\ m.user = user}}
    IN  {[chat_room |-> r,
          created_at |-> (CHOOSE msg \in room_messages(r) :
                            \A other \in room_messages(r) :
                               other.created_at <= msg.created_at).created_at,
          unread_messages |-> Cardinality({msg \in room_messages(r) :
                                              msg.member[2] # user /\ ~msg.seen})]
         : r \in joined}

user_unread_messages(user) ==
    /\ last' = Last("user_unread_messages", 0, user, unread_rows(user))
    /\ UNCHANGED <<rooms, members, clock, procs, codec, chat, users>>

\* Rooms, memberships, messages and the consumer, up to MaxMsgRooms rooms and
\* MaxMessages messages.
NextMsg ==
    \/ \E creator \in NonStaff :
          Len(rooms) < MaxMsgRooms /\ create_ticket(creator)
    \/ \E creator \in NonStaff, requested \in SUBSET NonStaff :
          Len(rooms) < MaxMsgRooms /\ create_group(creator, requested, PUBLIC_GROUPE)
    \/ \E r \in RoomIds, user \in Users : leave(r, user)
    \/ \E member \in members, type \in MESSAGE_TYPE, _seen \in BOOLEAN :
          save_message(member, type, _seen)
    \/ \E user \in Users \cup {AnonymousUser}, r \in 1..(Len(rooms) + 1) :
          connect(user, r)
    \/ \E user \in Users \cup {AnonymousUser}, r \in RoomIds, c \in Conns :
          disconnect(user, r, c)
    \/ \E user \in Users, r \in RoomIds, frame \in Frames : receive(user, r, frame)
    \/ \E r \in RoomIds, user \in Users : seen(r, user)
    \/ \E r \in RoomIds, user \in Users, limit \in PageSizes : offset(r, user, limit)
    \/ \E user \in Users : user_unread_messages(user)

SpecMsg == Init /\ [][NextMsg]_vars

\* Presence: members of a group open and close connections to it.
NextPresence ==
    \/ \E creator \in NonStaff, requested \in SUBSET NonStaff :
          Len(rooms) < MaxMsgRooms /\ create_group(creator, requested, PUBLIC_GROUPE)
    \/ \E user \in NonStaff, r \in RoomIds, c \in Conns : connect_accept(user, r, c)
    \/ \E x \in chat.channel : disconnect(x[2], x[1], x[3])

SpecPresence == Init /\ [][NextPresence]_vars

\* Presence with workers that may die inside disconnect.  Every open
\* connection ends at some time.
NextPresenceCrash ==
    \/ NextPresence
    \/ \E x \in chat.channel : disconnect_crash(x[2], x[1], x[3])

SpecPresenceCrash ==
    /\ Init
    /\ [][NextPresenceCrash]_vars
    /\ WF_vars(\E x \in chat.channel :
                  disconnect(x[2], x[1], x[3]) \/ disconnect_crash(x[2], x[1], x[3]))

----------------------------------------------------------------------------
(* Properties *)

rows_of(ms, r, u) == {m \in ms : m.chat_room = r /\ m.user = u}

other_rows(ms, r, u) == {m \in ms : ~(m.chat_room = r /\ m.user = u)}

TicketOrGroup(room) == is_ticket(room) \/ is_group(room)

(* C1: for every set S of the seven capabilities and every capability c,   *)
(* the containment test on the composite of S answers true exactly when c  *)
(* is in S; the composite of the empty set is the sentinel 2, and the test *)
(* on the sentinel answers false for every capability.                     *)
C1_CodecRoundTrip ==
    /\ (codec.pc = "checked") => (codec.has <=> (codec.cap \in codec.S))
    /\ (codec.pc \in {"encoded", "checked"} /\ codec.S = {})
          => (codec.composite = 2)
    /\ (codec.pc = "checked" /\ codec.composite = 2) => ~codec.has

C1_Witness ==
    /\ codec.pc = "checked"
    /\ codec.S = {"join_group", "send_message", "lock_group"}
    /\ codec.cap = "lock_group"
    /\ codec.has

(* C2: under any interleaving of concurrent create_group,                 *)
(* join_public_group, add_new_member, remove_member and leave requests     *)
(* there is at most one membership row, so at most one active membership,  *)
(* per room and user; a finished remove_member, and a finished             *)
(* add_new_member or join_public_group that got past the membership test,  *)
(* leaves exactly one row for its pair; two joins of one user to one room, *)
(* one arriving while the other is under way and one of them returning     *)
(* true, end with exactly one active membership.                           *)
C2_OneRowPerPair ==
    /\ \A r \in RoomIds, u \in Users : Cardinality(rows_of(members, r, u)) <= 1
    /\ \A p \in Procs :
          LET req == procs.req[p]
          IN  (/\ req.pc = "done"
               /\ \/ req.op = "remove_member" /\ req.ret = "True"
                  \/ /\ req.op \in {"add_new_member", "join_public_group"}
                     /\ req.ret \in {"True", "IntegrityError"})
              => Cardinality(rows_of(members, req.room, req.user)) = 1
    /\ \A p \in Procs, q \in Procs :
          LET a == procs.req[p]
              b == procs.req[q]
          IN  (/\ a.pc = "done" /\ b.pc = "done"
               /\ a.op = "join_public_group" /\ b.op = "join_public_group"
               /\ a.room = b.room /\ a.user = b.user
               /\ b.rival = a.n
               /\ "True" \in {a.ret, b.ret})
              => Cardinality(rows_of(objects(members), a.room, a.user)) = 1

C2_Witness ==
    LET a == procs.req["p"]
        b == procs.req["q"]
    IN  /\ a.pc = "done" /\ b.pc = "done"
        /\ a.op = "join_public_group" /\ b.op = "join_public_group"
        /\ a.room = b.room /\ a.user = b.user
        /\ b.rival = a.n
        /\ a.ret = "True" /\ b.ret = "IntegrityError"
        /\ Cardinality(rows_of(objects(members), a.room, a.user)) = 1

(* C3: in every stored state of a ticket or group room, closed is true     *)
(* exactly when closed_at is set.                                          *)
C3_ClosedIffClosedAt ==
    \A r \in RoomIds :
        TicketOrGroup(rooms[r]) => (rooms[r].closed <=> (rooms[r].closed_at # NULL))

(* C4: once a ticket or group room is stored closed, none of close,        *)
(* close_lock, lock, close_lock_delete (also when the creator leaves) and  *)
(* the generic save of update_group changes the stored room, so none       *)
(* reopens it; open() clears closed, closed_at and read_only.              *)
C4_ClosedStaysClosedUnlessOpened ==
    [][\A r \in RoomIds :
        (TicketOrGroup(rooms[r]) /\ rooms[r].closed /\ last'.room = r) =>
            /\ (last'.op \in {"close", "close_lock", "lock", "close_lock_delete",
                              "update_group", "leave"})
                  => (rooms'[r] = rooms[r])
            /\ (last'.op = "open")
                  => (rooms'[r] = [rooms[r] EXCEPT !.closed = FALSE,
                                                   !.closed_at = NULL,
                                                   !.read_only = FALSE])]_vars

C4_Witness ==
    /\ last.op = "lock"
    /\ last.room \in RoomIds
    /\ is_group(rooms[last.room])
    /\ rooms[last.room].closed
    /\ ~rooms[last.room].read_only

\* C4 as stated: no operation on a closed ticket or group room, open()
\* included, reopens it.
C4_Original ==
    [][\A r \in RoomIds :
        (/\ TicketOrGroup(rooms[r]) /\ rooms[r].closed /\ last'.room = r
         /\ last'.op \in {"close", "close_lock", "lock", "open",
                          "close_lock_delete", "update_group"})
            => rooms'[r].closed]_vars

\* The private chats stored for two users, whoever created them.
private_chats_of(a, b) ==
    {r \in RoomIds : /\ rooms[r].type = PRIVATE_CHAT
                     /\ ~rooms[r].is_deleted
                     /\ rooms[r].name \in {<<a, b>>, <<b, a>>}}

(* C5: after create_private_chat between two users, whoever of the two is  *)
(* the creator, exactly one private chat exists for the pair, and it has   *)
(* exactly two memberships, one for each of them.                          *)
C5_OnePrivateChatPerPair ==
    (last.op = "create_private_chat" /\ last.ret \in {"created", "found"}) =>
        LET name == rooms[last.room].name
            rows == {m \in members : m.chat_room = last.room}
        IN  /\ Cardinality(private_chats_of(name[1], name[2])) = 1
            /\ Cardinality(rows) = 2
            /\ {m.user : m \in rows} = {name[1], name[2]}

(* C6: for a member of an open public group, leave followed by             *)
(* join_public_group returns true and leaves that user's single membership *)
(* row active with the member preset 15.                                   *)
C6_LeaveThenJoinResets ==
    [][(/\ last.op = "leave"
        /\ last'.op = "join_public_group"
        /\ last'.room = last.room
        /\ last'.user = last.user
        /\ last.room \in RoomIds
        /\ is_public_group(rooms[last.room])
        /\ ~rooms[last.room].closed
        /\ ~rooms[last.room].is_deleted)
       => /\ last'.ret = "True"
          /\ Cardinality(rows_of(members', last.room, last.user)) = 1
          /\ \A m \in rows_of(members', last.room, last.user) :
                ~m.is_deleted /\ m.action_permission = 15]_vars

(* C7: remove_member on an active member returns true and leaves the       *)
(* membership soft-deleted with the sentinel permission 2, which holds no  *)
(* capability; on a user who is not an active member it returns false and  *)
(* changes no membership.                                                  *)
C7_RemoveMember ==
    [][(last'.op = "remove_member") =>
        LET r == last'.room
            u == last'.user
        IN  IF has_member(members, r, u)
            THEN /\ last'.ret = "True"
                 /\ rows_of(members', r, u) # {}
                 /\ \A m \in rows_of(members', r, u) :
                        /\ m.is_deleted
                        /\ m.action_permission = 2
                        /\ \A c \in CapabilitySet :
                              ~has_action_permission(m.action_permission, c)
                 /\ other_rows(members', r, u) = other_rows(members, r, u)
            ELSE /\ last'.ret = "False"
                 /\ members' = members]_vars

C7_Witness ==
    /\ last.op = "remove_member"
    /\ last.ret = "True"
    /\ \E m \in rows_of(members, last.room, last.user) :
          m.is_deleted /\ m.action_permission = 2

(* C8: promote_member on an active member returns true and sets is_admin   *)
(* with the admin preset 255; demote_admin on a current admin returns true *)
(* and clears is_admin with the member preset 15; promote_member on a user *)
(* who is no active member and demote_admin on a user who is no admin      *)
(* return false and change no membership.                                  *)
C8_PromoteDemote ==
    [][LET r == last'.room
           u == last'.user
       IN  /\ (last'.op = "promote_member") =>
                IF has_member(members, r, u)
                THEN /\ last'.ret = "True"
                     /\ \A m \in rows_of(objects(members), r, u) :
                           [m EXCEPT !.is_admin = TRUE,
                                     !.action_permission = 255] \in members'
                     /\ Cardinality(rows_of(members', r, u)) = 1
                     /\ other_rows(members', r, u) = other_rows(members, r, u)
                ELSE /\ last'.ret = "False"
                     /\ members' = members
           /\ (last'.op = "demote_admin") =>
                IF \E m \in rows_of(objects(members), r, u) :
                      m.is_admin /\ ~m.is_creator
                THEN /\ last'.ret = "True"
                     /\ \A m \in rows_of(objects(members), r, u) :
                           [m EXCEPT !.is_admin = FALSE,
                                     !.action_permission = 15] \in members'
                     /\ Cardinality(rows_of(members', r, u)) = 1
                     /\ other_rows(members', r, u) = other_rows(members, r, u)
                ELSE /\ last'.ret = "False"
                     /\ members' = members]_vars

C8_Witness ==
    /\ last.op = "demote_admin"
    /\ last.ret = "True"
    /\ \E m \in rows_of(members, last.room, last.user) :
          ~m.is_admin /\ ~m.is_deleted /\ m.action_permission = 15

(* C9: when the creator of a group leaves, whatever the room's state, the  *)
(* stored room is afterwards closed, read-only and soft-deleted, the       *)
(* creator's membership is soft-deleted and no other membership changes.   *)
C9_CreatorLeaveClosesRoom ==
    [][(last'.op = "leave") =>
        LET r == last'.room
            u == last'.user
        IN  (is_group(rooms[r]) /\
             \E m \in rows_of(objects(members), r, u) : m.is_creator)
            => /\ rooms'[r].closed
               /\ rooms'[r].read_only
               /\ rooms'[r].is_deleted
               /\ \A m \in rows_of(members', r, u) : m.is_deleted
               /\ other_rows(members', r, u) = other_rows(members, r, u)]_vars

\* The chat_members rows a user holds in ticket rooms.
ticket_member_count(ms, u) ==
    Cardinality({m \in ms : m.user = u /\ is_ticket(rooms[m.chat_room])})

\* create_ticket stored a ticket with the creator and one staff who held the
\* fewest ticket memberships among the staff other than the creator, or among
\* all staff when with_creator is true.
ticket_assigned(with_creator) ==
    (last'.op = "create_ticket" /\ last'.ret = "created") =>
        LET t == last'.room
            creator == last'.user
            rows == {m \in members' : m.chat_room = t}
        IN  /\ t \notin RoomIds
            /\ is_ticket(rooms'[t])
            /\ Cardinality(rows) = 2
            /\ \E c \in rows, s \in rows :
                  /\ c.user = creator /\ c.is_creator
                  /\ s.user # creator /\ ~s.is_creator /\ is_staff(s.user)
                  /\ \A v \in (IF with_creator THEN Staff ELSE Staff \ {creator}) :
                        ticket_member_count(members, s.user)
                            <= ticket_member_count(members, v)

C11_CreateGroupMemberships ==
    [][(last'.op = "create_group") =>
        \A creator \in NonStaff, requested \in SUBSET NonStaff, type \in GroupTypes :
          create_group(creator, requested, type) =>
            LET g == Len(rooms) + 1
                rows == {m \in members' : m.chat_room = g}
            IN  /\ {m \in members' : m.chat_room # g} = members
                /\ {m.user : m \in rows} = requested \cup {creator}
                /\ \A u \in requested \cup {creator} :
                      Cardinality(rows_of(members', g, u)) = 1
                /\ \A m \in rows :
                      /\ ~m.is_deleted /\ ~m.is_admin
                      /\ m.is_creator <=> (m.user = creator)
                      /\ m.action_permission =
                            IF m.user = creator THEN 3 * 5 * 17 * 19 * 23 * 29 * 31
                            ELSE 15]_vars

C11_Witness ==
    /\ last.op = "create_group"
    /\ last.room = 2
    /\ \E c \in rows_of(members, last.room, last.user) :
          c.is_creator /\ c.action_permission = 100180065
    /\ \E m \in members :
          /\ m.chat_room = last.room /\ m.user # last.user
          /\ ~m.is_creator /\ m.action_permission = 15

\* C17: no private chat is ever closed or soft-deleted by the operations its
\* members have (create, leave; block and unblock only touch read_only).
C17_PrivateChatNeverClosed ==
    \A r \in RoomIds :
        is_private_chat(rooms[r]) => ~rooms[r].closed /\ ~rooms[r].is_deleted

\* C19: a step that soft-deletes the creator's membership of a room leaves the
\* room closed, read-only and soft-deleted.
C19_CreatorGoneRoomGone ==
    [][\A m \in members :
         (/\ m.is_creator
          /\ ~m.is_deleted
          /\ \E n \in members' : n.id = m.id /\ n.is_deleted)
         => /\ rooms'[m.chat_room].closed
            /\ rooms'[m.chat_room].read_only
            /\ rooms'[m.chat_room].is_deleted]_vars

C18_OnlyTextOrFileStored ==
    [][(last'.op \in {"save_message", "receive"}) =>
        /\ \A i \in 1..Len(chat'.messages) :
              chat'.messages[i].type \in {"TEXT", "FILE"}
        /\ \A member \in members, _seen \in BOOLEAN,
              type \in {"ONLINE", "NOTICE", "TYPING", "SENDING"} :
              save_message(member, type, _seen) => chat'.messages = chat.messages
        /\ \A user \in Users, r \in RoomIds :
              receive(user, r, "user_typing") => chat'.messages = chat.messages]_vars

\* A message of a transient type has been saved into a store that holds a
\* message, and nothing was written.
C18_Witness ==
    /\ last.op = "save_message"
    /\ last.ret = "None"
    /\ Len(chat.messages) = 1

C14_OffsetOfFirstUnseen ==
    [][(last'.op = "offset") =>
        \A r \in RoomIds, user \in Users, limit \in PageSizes :
          (offset(r, user, limit) /\ not_seen_by_others(r, user) # {})
          => LET first == CHOOSE msg \in not_seen_by_others(r, user) :
                             \A other \in not_seen_by_others(r, user) :
                                msg.created_at <= other.created_at
                 k == Cardinality({msg \in room_messages(r) :
                                     msg.created_at < first.created_at})
             IN  last'.ret = (k \div limit) * limit]_vars

\* C15: the unread summary of a user has exactly one row for every room in
\* which the user holds an active membership and no other row, and each row
\* counts the unseen messages of the room that other users sent.
C15_UnreadSummaryRows ==
    (last.op = "user_unread_messages") =>
        LET active == {r \in RoomIds : has_member(members, r, last.user)}
        IN  /\ {row.chat_room : row \in last.ret} = active
            /\ \A r \in active :
                  Cardinality({row \in last.ret : row.chat_room = r}) = 1
            /\ \A row \in last.ret :
                  row.unread_messages =
                    Cardinality({msg \in chat_messages :
                                   /\ msg.member[1] = row.chat_room
                                   /\ ~msg.seen
                                   /\ msg.member[2] # last.user})

\* C12: a chat_message frame received from a member stores one new message of
\* that sender whose seen flag tells whether more than one user is present in
\* the room; when it is stored unseen, every other member of the room has one
\* more unread message.
C12_SendStoresWithSeenFlag ==
    [][(last'.op = "receive") =>
        \A user \in Users, r \in RoomIds :
          receive(user, r, "chat_message") =>
            /\ Len(chat'.messages) = Len(chat.messages) + 1
            /\ \A i \in MessageIds : chat'.messages[i] = chat.messages[i]
            /\ LET new == chat'.messages[Len(chat'.messages)]
               IN  /\ new.member[1] = r
                   /\ new.member[2] = user
                   /\ new.seen <=> (Cardinality(smembers(r)) > 1)
                   /\ ~new.seen =>
                        \A other \in all_members(members, r) \ {user} :
                          Cardinality({i \in 1..Len(chat'.messages) :
                                         /\ chat'.messages[i].member[1] = r
                                         /\ chat'.messages[i].member[2] # other
                                         /\ ~chat'.messages[i].seen})
                          = Cardinality({i \in MessageIds :
                                         /\ chat.messages[i].member[1] = r
                                         /\ chat.messages[i].member[2] # other
                                         /\ ~chat.messages[i].seen}) + 1]_vars

\* C16: a connect of an anonymous user, to a room that does not exist or is
\* soft-deleted, or of a user without an active membership in the room, is
\* closed with code 4004 and changes neither the room channel nor the
\* presence set; an accepted connect is none of these.
C16_ConnectOnlyForActiveMembers ==
    [][(last'.op = "connect") =>
        \A user \in Users \cup {AnonymousUser}, r \in 1..(Len(rooms) + 1) :
          connect(user, r) =>
            LET eligible == /\ user # AnonymousUser
                            /\ r \in RoomIds
                            /\ ~rooms[r].is_deleted
                            /\ has_member(members, r, user)
            IN  /\ last'.ret = "accepted" => eligible
                /\ ~eligible => /\ last'.ret = "4004"
                                /\ chat'.channel = chat.channel
                                /\ chat'.presence = chat.presence]_vars

\* C21: a leave that leaves a room without active member leaves it closed
\* with closed_at recorded, and no state has an open room without active
\* membership.
C21_LeaveLastClosesRoom ==
    /\ [](\A r \in RoomIds :
            chat_member(members, r) = {} => rooms[r].closed)
    /\ [][\A r \in RoomIds :
            (/\ last'.op = "leave" /\ last'.room = r
             /\ chat_member(members, r) # {}
             /\ chat_member(members', r) = {})
            => rooms'[r].closed /\ rooms'[r].closed_at # NULL]_vars

\* C22: every stored room has the membership row of its creator, also after a
\* creation that failed part-way.
C22_RoomHasCreatorRow ==
    \A r \in RoomIds : \E m \in members : m.chat_room = r /\ m.is_creator

\* C24: of two remove_member requests for the same member of the same room,
\* the second arriving while the first is under way, exactly one returns True
\* and the other returns False.
C24_ConcurrentRemoveOnce ==
    \A a \in Procs, b \in Procs :
        (/\ a # b
         /\ procs.req[a].op = "remove_member" /\ procs.req[a].pc = "done"
         /\ procs.req[b].op = "remove_member" /\ procs.req[b].pc = "done"
         /\ procs.req[a].room = procs.req[b].room
         /\ procs.req[a].user = procs.req[b].user
         /\ procs.req[b].rival = procs.req[a].n)
        => {procs.req[a].ret, procs.req[b].ret} = {"True", "False"}

\* C23: whatever the interleaving of create_private_chat calls for a pair of
\* users, at most one private chat with the name derived from the pair is
\* stored, and its two memberships are stored once.
C23_ConcurrentPrivateChatOnce ==
    \A creator \in NonStaff, contact \in NonStaff :
        /\ Cardinality(private_chat_found(creator, contact)) <= 1
        /\ \A r \in private_chat_found(creator, contact) :
              \A u \in {creator, contact} :
                 Cardinality(rows_of(members, r, u)) <= 1

\* C25: after every message that Message.save stored, whatever its seen flag,
\* an unread-summary event has been sent on the unread channel of every active
\* member of the room.
C25_UnreadPushAfterEveryMessage ==
    [][(last'.op = "save_message" /\ last'.ret = "saved")
        => all_members(members', last'.room) \subseteq chat'.sse]_vars

C29_InvalidPayloadNoticeOnly ==
    [][(last'.op = "receive") =>
        \A user \in Users, r \in RoomIds, frame \in {"invalid", "not_json"} :
          receive(user, r, frame) =>
            /\ chat'.messages = chat.messages
            /\ chat'.presence = chat.presence
            /\ chat'.channel = chat.channel
            /\ last'.ret = "user_notice"]_vars

\* C30: when no message of the room is both unseen and written by somebody
\* else, and the room has n >= 1 messages, offset(room, user, limit) is the
\* start of the last page, floor((n - 1) / limit) * limit.  (The subscript is
\* vars with the operation name in front.)
C30_OffsetLastPageWhenAllSeen ==
    [][(last'.op = "offset") =>
        \A user \in Users, r \in RoomIds, limit \in PageSizes :
          (/\ offset(r, user, limit)
           /\ not_seen_by_others(r, user) = {}
           /\ room_messages(r) # {})
            => last'.ret =
                 ((Cardinality(room_messages(r)) - 1) \div limit) * limit]_<<last.op, vars>>

\* An offset request answered 1 for a room of two messages, none of them
\* unseen and written by somebody else.
C30_Witness ==
    /\ last.op = "offset"
    /\ last.ret = 1
    /\ last.room \in RoomIds
    /\ Cardinality(room_messages(last.room)) = 2
    /\ not_seen_by_others(last.room, last.user) = {}

C31_RemovedNeverRejoins ==
    [][(last'.op \in {"join_public_group", "add_new_member"}) =>
        \A r \in RoomIds, user \in Users :
          (/\ is_group(rooms[r])
           /\ \E m \in members : /\ m.chat_room = r /\ m.user = user
                                 /\ m.is_deleted
                                 /\ m.action_permission = no_permission
           /\ join_public_group(r, user) \/ add_new_member(r, user))
            => /\ last'.ret = "False"
               /\ members' = members]_<<last.op, vars>>

\* A group that is locked and unlocked, whose members are promoted and send
\* frames on the room socket.
NextLocked ==
    \/ \E creator \in NonStaff, requested \in SUBSET NonStaff :
          Len(rooms) < MaxMsgRooms /\ create_group(creator, requested, PUBLIC_GROUPE)
    \/ \E r \in RoomIds, user \in NonStaff : promote_member(r, user)
    \/ \E r \in RoomIds : lock(r)
    \/ \E user \in NonStaff, r \in RoomIds, frame \in Frames : receive(user, r, frame)

SpecLocked == Init /\ [][NextLocked]_vars

\* C32: while a group is locked, a chat message sent on the room socket by a
\* member who is neither admin nor creator is neither stored nor sent to the
\* room channel, and a chat message sent by an admin is stored.
C32_LockedGroupOnlyAdminsSend ==
    [][(last'.op = "receive") =>
        \A r \in RoomIds, user \in Users :
          (/\ is_group(rooms[r])
           /\ rooms[r].read_only
           /\ receive(user, r, "chat_message"))
            => IF has_admin(members, r, user)
               THEN Len(chat'.messages) = Len(chat.messages) + 1
               ELSE (\A m \in members : m.chat_room = r /\ m.user = user
                                         => ~m.is_creator)
                      => /\ chat'.messages = chat.messages
                         /\ last'.ret # "chat_message"]_<<last.op, vars>>

----------------------------------------------------------------------------
(* The views in front of join, add-member, assign-staff and close: the     *)
(* body of update() once get_object() has found the room and the           *)
(* permission classes have let the request pass                            *)

\* if instance.closed: raise NotAcceptable, without the test.
instance_closed_ignored(room) == FALSE

\* if instance.closed: raise exceptions.NotAcceptable(...)
instance_closed(room) == room.closed

\* What a view answers for the result of join_public_group / add_new_member.
response(ret) ==
    IF ret = "True" THEN "Done"
    ELSE IF ret = "False" THEN "NotAcceptable"
    ELSE ret

\* JoinPublicGroupAPIView.update
JoinPublicGroupAPIView(r, user) ==
    LET res == join_public_group_result(members, rooms[r], r, user)
    IN  /\ is_public_group(rooms[r]) /\ ~rooms[r].is_deleted
        /\ IF instance_closed(rooms[r])
           THEN /\ members' = members
                /\ last' = Last("JoinPublicGroupAPIView", r, user, "NotAcceptable")
           ELSE /\ members' = res.members
                /\ last' = Last("JoinPublicGroupAPIView", r, user, response(res.ret))
        /\ UNCHANGED <<rooms, clock, procs, codec, chat, users>>

\* AddNewMemberAPIView.update, as AddMemberToGroupAPIView (groups, users that
\* are not staff) and as AssignStaffToTicketAPIView (tickets, staff).
AddNewMemberAPIView(r, user) ==
    LET res == add_new_member_result(members, rooms[r], r, user)
    IN  /\ is_group(rooms[r]) \/ is_ticket(rooms[r])
        /\ ~rooms[r].is_deleted
        /\ user \in users
        /\ is_staff(user) <=> is_ticket(rooms[r])
        /\ IF instance_closed(rooms[r])
           THEN /\ members' = members
                /\ last' = Last("AddNewMemberAPIView", r, user, "NotAcceptable")
           ELSE /\ members' = res.members
                /\ last' = Last("AddNewMemberAPIView", r, user, response(res.ret))
        /\ UNCHANGED <<rooms, clock, procs, codec, chat, users>>

\* CloseGroupAPIView.update
CloseGroupAPIView(r) ==
    /\ is_group(rooms[r]) /\ ~rooms[r].is_deleted
    /\ IF instance_closed(rooms[r])
       THEN /\ last' = Last("CloseGroupAPIView", r, NoUser, "NotAcceptable")
            /\ UNCHANGED <<rooms, members, clock, procs, codec, chat, users>>
       ELSE save_room("CloseGroupAPIView", r, [rooms[r] EXCEPT !.closed = TRUE])

\* CloseLockTicketAPIView.update
CloseLockTicketAPIView(r) ==
    /\ is_ticket(rooms[r]) /\ ~rooms[r].is_deleted
    /\ IF instance_closed(rooms[r])
       THEN /\ last' = Last("CloseLockTicketAPIView", r, NoUser, "NotAcceptable")
            /\ UNCHANGED <<rooms, members, clock, procs, codec, chat, users>>
       ELSE save_room("CloseLockTicketAPIView", r,
                      [rooms[r] EXCEPT !.closed = TRUE, !.read_only = TRUE])

\* Tickets and groups, members that leave, and the requests of the four views.
NextViews ==
    \/ \E creator \in NonStaff :
          Len(rooms) < MaxCreated /\ create_ticket(creator)
    \/ \E creator \in NonStaff, requested \in SUBSET NonStaff, type \in GroupTypes :
          Len(rooms) < MaxCreated /\ create_group(creator, requested, type)
    \/ \E r \in RoomIds, user \in Users : leave(r, user)
    \/ \E r \in RoomIds, user \in NonStaff : JoinPublicGroupAPIView(r, user)
    \/ \E r \in RoomIds, user \in Users : AddNewMemberAPIView(r, user)
    \/ \E r \in RoomIds : CloseGroupAPIView(r)
    \/ \E r \in RoomIds : CloseLockTicketAPIView(r)

SpecViews == Init /\ [][NextViews]_vars

\* C33: a join, add-member or assign-staff request on a closed ticket or
\* group is rejected and leaves the memberships unchanged, and a close
\* request on a closed ticket or group is rejected and leaves the room
\* unchanged.
C33_ClosedRoomRejects ==
    [][(/\ last'.op \in {"JoinPublicGroupAPIView", "AddNewMemberAPIView",
                         "CloseGroupAPIView", "CloseLockTicketAPIView"}
        /\ rooms[last'.room].closed)
        => /\ last'.ret = "NotAcceptable"
           /\ members' = members
           /\ rooms' = rooms]_<<last.op, vars>>

\* A user who is not a member asked to join a closed public group and was
\* rejected.
C33_Witness ==
    /\ last.op = "JoinPublicGroupAPIView"
    /\ last.ret = "NotAcceptable"
    /\ rooms[last.room].closed
    /\ \A m \in members : ~(m.chat_room = last.room /\ m.user = last.user)

----------------------------------------------------------------------------
(* Block and unblock of a private chat *)

\* BlockUserAPIView.update: instance.lock()
BlockUserAPIView(r) ==
    /\ rooms[r].type = PRIVATE_CHAT /\ ~rooms[r].is_deleted
    /\ save_room("BlockUserAPIView", r,
                 [rooms[r] EXCEPT !.read_only = ~rooms[r].read_only])

\* UnBlockUserAPIView.update: instance.open()
UnBlockUserAPIView(r) ==
    /\ rooms[r].type = PRIVATE_CHAT /\ ~rooms[r].is_deleted
    /\ save_room("UnBlockUserAPIView", r,
                 [rooms[r] EXCEPT !.closed = FALSE, !.read_only = FALSE,
                                  !.closed_at = NULL])

\* Private chats that their members block, unblock and leave.
NextBlock ==
    \/ \E creator \in NonStaff, contact \in NonStaff :
          /\ Len(rooms) < MaxCreated \/ private_chat_found(creator, contact) # {}
          /\ create_private_chat(creator, contact)
    \/ \E r \in RoomIds : BlockUserAPIView(r)
    \/ \E r \in RoomIds : UnBlockUserAPIView(r)
    \/ \E r \in RoomIds, user \in NonStaff : leave(r, user)

SpecBlock == Init /\ [][NextBlock]_vars

\* C35: after a block request a private chat is read-only whatever it was
\* before; after an unblock request it is neither read-only nor closed, so
\* that block and then unblock bring an open chat back to its open state.
C35_BlockUnblock ==
    [][/\ (last'.op = "BlockUserAPIView") => rooms'[last'.room].read_only
       /\ (last'.op = "UnBlockUserAPIView") =>
             /\ ~rooms'[last'.room].read_only
             /\ ~rooms'[last'.room].closed
             /\ (~rooms[last'.room].closed /\ rooms[last'.room].closed_at = NULL)
                  => rooms'[last'.room] =
                       [rooms[last'.room] EXCEPT !.read_only = FALSE]]_<<last.op, vars>>

----------------------------------------------------------------------------
(* Requests to the per-user unread channel (events/<user_id>/?token=...).  *)
(* A token is written as the user it verifies as; a token that does not    *)
(* verify, and no token, verify as AnonymousUser.  Two requests run at     *)
(* once and their statements interleave.                                   *)

\* get_user_sync(token_key)
get_user_sync(token) ==
    IF token \in Users THEN token ELSE AnonymousUser

\* ChannelManager.can_read_channel(user, channel): the user argument is
\* overwritten with the user of the module-level token; the channel is
\* unread_messages_<id>, its id kept in req.requested.
can_read_channel(req, token) ==
    LET user == get_user_sync(token)
    IN  user # AnonymousUser /\ {user} = req.requested

\* ChannelManager.get_channels_for_request: token = request.GET.get("token")
get_channels_for_request(p, token, user_id) ==
    /\ start_proc(p, [Request("events", 0, token, "can_read_channel")
                        EXCEPT !.requested = {user_id}])
    /\ chat' = [chat EXCEPT !.token = token]
    /\ UNCHANGED <<rooms, members, clock, last, codec, users>>

\* The view asks can_read_channel for the channel of the request.
conc_can_read_channel(p) ==
    LET req == procs.req[p]
    IN  /\ req.pc = "can_read_channel"
        /\ set_proc(p, Done(req, IF can_read_channel(req, chat.token)
                                 THEN "True" ELSE "False"))
        /\ UNCHANGED <<rooms, members, clock, last, codec, chat, users>>

NextEvents ==
    \/ \E p \in Procs, token \in Users \cup {NoToken}, user_id \in Users :
          get_channels_for_request(p, token, user_id)
    \/ \E p \in Procs : conc_can_read_channel(p)
    \/ \E p \in Procs : conc_respond(p)

SpecEvents == InitConc /\ [][NextEvents]_vars

\* C36: a request to read the unread channel of a user is authorized only
\* if the token of that same request verifies as that user, whatever other
\* requests run at the same time.
C36_UnreadChannelOwnTokenOnly ==
    \A p \in Procs :
      (/\ procs.req[p].op = "events"
       /\ procs.req[p].pc = "done"
       /\ procs.req[p].ret = "True")
        => procs.req[p].requested = {procs.req[p].user}

----------------------------------------------------------------------------
(* Tickets with a second staff member: messages, seen and unread summary *)

NextLedger ==
    \/ \E creator \in NonStaff :
          Len(rooms) < MaxMsgRooms /\ create_ticket(creator)
    \/ \E r \in RoomIds, user \in Staff : add_new_member(r, user)
    \/ \E member \in members, type \in {"TEXT", "FILE"}, _seen \in BOOLEAN :
          save_message(member, type, _seen)
    \/ \E r \in RoomIds, user \in Users : seen(r, user)
    \/ \E user \in Users : user_unread_messages(user)

SpecLedger == Init /\ [][NextLedger]_vars

\* C37: in a room of three or more members, seen by one member does not
\* change the unread count the unread summary reports to another member.
C37_SeenPerRecipient ==
    [][(last'.op = "seen") =>
        \A r \in RoomIds, user \in Users, other \in Users :
          (/\ seen(r, user)
           /\ other # user
           /\ Cardinality(all_members(members, r)) >= 3
           /\ has_member(members, r, user)
           /\ has_member(members, r, other))
            => {row.unread_messages : row \in
                   {x \in unread_rows(other)' : x.chat_room = r}}
               = {row.unread_messages : row \in
                   {x \in unread_rows(other) : x.chat_room = r}}]_<<last.op, vars>>

----------------------------------------------------------------------------
(* Roles in a group: promote, demote and permission updates by the creator *)

NextRoles ==
    \/ \E creator \in NonStaff, requested \in SUBSET NonStaff, type \in GroupTypes :
          Len(rooms) < MaxRooms /\ create_group(creator, requested, type)
    \/ \E r \in RoomIds, user \in NonStaff :
          is_group(rooms[r]) /\ promote_member(r, user)
    \/ \E r \in RoomIds, user \in NonStaff :
          is_group(rooms[r]) /\ demote_admin(r, user)
    \/ \E r \in RoomIds, user \in NonStaff, chosen \in PermissionChoices :
          set_action_permission(r, user, chosen)

SpecRoles == Init /\ [][NextRoles]_vars

\* C38: in a group that is not soft-deleted the membership of the creator
\* holds the creator preset, all seven capabilities, whatever promote_member,
\* demote_admin and permission updates have run.
C38_CreatorKeepsPreset ==
    \A r \in RoomIds :
      (is_group(rooms[r]) /\ ~rooms[r].is_deleted) =>
        \A m \in members :
          (m.chat_room = r /\ m.is_creator)
            => m.action_permission = creator_permissions

\* C39: right after seen(room, user) by a member, a staff reader of a ticket
\* with messages of other staff included, the unread summary of that user
\* reports 0 unread messages for the room.
C39_SeenClearsOwnCount ==
    [][(last'.op = "seen") =>
        \A r \in RoomIds, user \in Users :
          (seen(r, user) /\ has_member(members, r, user))
            => \A row \in unread_rows(user)' :
                  row.chat_room = r => row.unread_messages = 0]_<<last.op, vars>>

\* C40: for every room, a room without messages included, and every limit
\* >= 1, the offset is a multiple of the limit, not negative and not greater
\* than the number of messages of the room.
C40_OffsetInRange ==
    [][(last'.op = "offset") =>
        \A r \in RoomIds, user \in Users, limit \in PageSizes :
          offset(r, user, limit) =>
            /\ last'.ret >= 0
            /\ last'.ret <= Cardinality(room_messages(r))
            /\ \E k \in 0..MaxMessages : last'.ret = k * limit]_<<last.op, vars>>

====
